---- MODULE Spec2Model ----
(***************************************************************************)
(* bcrl-rs: a snapshot of a process's memory regions (CachedMaps), bounds- *)
(* checked pointers into it (SafePointer), region filters                  *)
(* (SearchConstraints) and the Session pipeline built on them.             *)
(*                                                                         *)
(* Scaling.  A byte has ByteBits bits instead of 8; the byte COUNTS of the *)
(* program are kept (a usize is SizeOfUsize = 8 bytes, an i32 is           *)
(* SizeOfI32 = 4 bytes), so that a usize has 8 * ByteBits bits and every   *)
(* address fits the model checker's integers.  usize arithmetic is done    *)
(* modulo Modulus.  An overflowing usize operation panics in a build with  *)
(* overflow checks (cargo's dev profile) and wraps in one without (the     *)
(* release profile); the variable build holds which one is running.        *)
(*                                                                         *)
(* A Session's stream is lazy: a seed or a stage only wraps the iterator,   *)
(* and the closures run, element by element, when a terminal pulls.  The   *)
(* closures are pure functions of the pointer and the immutable snapshot,  *)
(* so the model holds the stream as what it yields when pulled: the        *)
(* pointers it yields (pool), and whether the pull after the last of them  *)
(* panics (broken).  Attaching never panics; get_pointer, which drains the *)
(* stream, and next on the iterator of get_pool do.                        *)
(***************************************************************************)
EXTENDS Integers, Sequences, FiniteSets, TLC

VARIABLES
    maps,      \* BcrlFactory.maps: the BinaryHeap's underlying vector
    build,     \* "debug" (overflow checks) or "release" (wrapping)
    lib,       \* what bound_stl answers when its ordering precondition is broken
    pc,        \* "capture", "ready", "session", "pool", "done", "panicked"
    pool,      \* Session.pool: the pointers the stream yields, in stream order
    broken,    \* the stream panics when pulled after the pointers of pool
    steps,     \* number of stages attached to the current session
    last       \* the last operation: its name, its inputs and its result

vars == <<maps, build, lib, pc, pool, broken, steps, last>>

---------------------------------------------------------------------------
(* Bounds of the model *)

ByteBits == 2
MaxRegions == 3
MaxSteps == 2
MaxRead == 9

---------------------------------------------------------------------------
(* Machine integers *)

SizeOfUsize == 8
SizeOfI32 == 4

ByteRadix == 2 ^ ByteBits
Modulus == 2 ^ (ByteBits * SizeOfUsize)
UsizeMax == Modulus - 1

\* The value of an expression whose evaluation panicked.
Panic == -1

\* usize + usize as rustc compiles it.
add_usize(a, b) ==
    IF a = Panic \/ b = Panic THEN Panic
    ELSE IF a + b > UsizeMax
         THEN (IF build = "debug" THEN Panic ELSE a + b - Modulus)
         ELSE a + b

\* usize - usize as rustc compiles it.
sub_usize(a, b) ==
    IF a = Panic \/ b = Panic THEN Panic
    ELSE IF b > a
         THEN (IF build = "debug" THEN Panic ELSE a - b + Modulus)
         ELSE a - b

Max(a, b) == IF a >= b THEN a ELSE b
Min(a, b) == IF a <= b THEN a ELSE b

\* Option<T> and a panicked evaluation, as records of one shape.
Some(v) == [tag |-> "some", val |-> v]
None(v) == [tag |-> "none", val |-> v]
Panicked(v) == [tag |-> "panic", val |-> v]

\* &bytes[start..end]: panics when start > end or end > len.
slice(bytes, start, end) ==
    IF start = Panic \/ end = Panic THEN Panicked(<<>>)
    ELSE IF start > end \/ end > Len(bytes) THEN Panicked(<<>>)
    ELSE Some(SubSeq(bytes, start + 1, end))

---------------------------------------------------------------------------
(* CachedMap *)

CachedMap(from_address, to_address, permissions, name, bytes) ==
    [from_address |-> from_address, to_address |-> to_address,
     permissions |-> permissions, name |-> name, bytes |-> bytes]

\* MMapPath: Path(p) and Other(s) carry a name, of which only the final
\* element matters to the program; the other variants carry none.
Path(file) == [kind |-> "Path", file |-> file]
Other(file) == [kind |-> "Other", file |-> file]
Heap == [kind |-> "Heap", file |-> ""]

get_size(map) == map.to_address - map.from_address

\* CachedMap::contains
contains(map, address) ==
    map.from_address >= address /\ address <= map.to_address

\* The regions the memory source may report.  Bytes are base-ByteRadix digits.
\* RegionA holds at 0 the word 16 (the start of RegionB) and no instruction;
\* RegionB holds at 16 an instruction of length 1, the word 9 and the
\* displacement 9; RegionC holds at 32 the word 32.
RegionA == CachedMap(0, 12, {"r", "x"}, Path("libA"), <<0, 0, 1, 0, 0, 0, 0, 0, 1, 2, 1, 2>>)
RegionB == CachedMap(16, 24, {"r", "w"}, Path("libB"), <<1, 2, 0, 0, 0, 0, 0, 0>>)
RegionC == CachedMap(32, 40, {"r"}, Other("libA"), <<0, 0, 2, 0, 0, 0, 0, 0>>)

SourceRegions == {RegionA, RegionB, RegionC}

Overlap(r, s) == r.from_address < s.to_address /\ s.from_address < r.to_address

---------------------------------------------------------------------------
(* CachedMaps = BinaryHeap<CachedMap>, ordered by from_address *)

Swap(data, i, j) == [data EXCEPT ![i] = data[j], ![j] = data[i]]

\* BinaryHeap::sift_up on the 1-based vector: the element at pos rises while
\* it is greater than its parent (Ord for CachedMap compares from_address).
RECURSIVE sift_up(_, _)
sift_up(data, pos) ==
    IF pos = 1 THEN data
    ELSE LET parent == pos \div 2 IN
         IF data[pos].from_address <= data[parent].from_address THEN data
         ELSE sift_up(Swap(data, pos, parent), parent)

\* maps.insert(map): the element is appended and sifted up.
heap_insert(data, map) == sift_up(Append(data, map), Len(data) + 1)

Ok(i) == [ok |-> TRUE, idx |-> i]
Err(i) == [ok |-> FALSE, idx |-> i]

\* keys is partitioned for x: no key greater than x precedes one that is not.
Partitioned(keys, x) ==
    \A i, j \in 1..Len(keys) : (i < j /\ keys[i] > x) => keys[j] > x

\* bound_stl's upper_bound_by_key over the heap's iteration order: the index
\* of the first key greater than x, Err(len) when there is none.  When the
\* keys are not partitioned for x the call breaks the library's precondition
\* and the answer is unspecified: lib stands for it.
upper_bound_by_key(keys, x) ==
    IF Partitioned(keys, x)
    THEN LET n == Cardinality({i \in 1..Len(keys) : keys[i] <= x}) IN
         IF n = Len(keys) THEN Err(n) ELSE Ok(n)
    ELSE IF lib < Len(keys) THEN Ok(lib) ELSE Err(Len(keys))

NoMap == CachedMap(0, 0, {}, Heap, <<>>)

from_addresses(ms) == [i \in 1..Len(ms) |-> ms[i].from_address]

\* find_map, from the answer `it` of upper_bound_by_key on.
find_map_at(ms, address, it) ==
    IF it.ok /\ it.idx > 0
    THEN IF ms[it.idx].from_address >= address /\ address <= ms[it.idx].to_address
         THEN Some(ms[it.idx])
         ELSE None(NoMap)
    ELSE None(NoMap)

\* FindAddress::find_map
find_map(ms, address) ==
    IF Len(ms) = 0 THEN None(NoMap)
    ELSE find_map_at(ms, address, upper_bound_by_key(from_addresses(ms), address))

---------------------------------------------------------------------------
(* SearchConstraints *)

\* Option<bool>
NoBool == "None"
SomeBool(b) == IF b THEN "Some(true)" ELSE "Some(false)"

\* SearchConstraints::everything
everything ==
    [address_range |-> <<0, UsizeMax>>, predicates |-> <<>>,
     readable |-> NoBool, writable |-> NoBool, executable |-> NoBool]

\* with_name pushes a predicate on the final element of the region's name;
\* the predicate is modelled by the name it compares with.
with_name(c, name) == [c EXCEPT !.predicates = Append(@, name)]

name_predicate(name, map) ==
    map.name.kind \in {"Path", "Other"} /\ map.name.file = name

from(c, value) ==
    [c EXCEPT !.address_range = <<value, Max(c.address_range[2], value)>>]

to(c, value) ==
    [c EXCEPT !.address_range = <<Min(c.address_range[1], value), value>>]

thats_readable(c) == [c EXCEPT !.readable = SomeBool(TRUE)]
thats_not_readable(c) == [c EXCEPT !.readable = SomeBool(FALSE)]
thats_writable(c) == [c EXCEPT !.writable = SomeBool(TRUE)]
thats_not_writable(c) == [c EXCEPT !.writable = SomeBool(FALSE)]
thats_executable(c) == [c EXCEPT !.executable = SomeBool(TRUE)]
thats_not_executable(c) == [c EXCEPT !.executable = SomeBool(FALSE)]

\* SearchConstraints::clamp_address_range: a pair, a component of which is
\* Panic when its subtraction panicked.
clamp_address_range(c, address_range) ==
    <<sub_usize(Max(address_range[1], c.address_range[1]), address_range[1]),
      sub_usize(Min(address_range[2], c.address_range[2]), address_range[1])>>

\* SearchConstraints::allows_map
allows_map(c, map) ==
    IF \E i \in 1..Len(c.predicates) : ~name_predicate(c.predicates[i], map)
    THEN FALSE
    ELSE IF c.address_range[2] < map.from_address
            \/ c.address_range[2] < map.to_address
    THEN FALSE
    ELSE IF c.readable # NoBool /\ c.readable # SomeBool("r" \in map.permissions)
    THEN FALSE
    ELSE IF c.writable # NoBool /\ c.writable # SomeBool("w" \in map.permissions)
    THEN FALSE
    ELSE IF c.executable # NoBool /\ c.executable # SomeBool("x" \in map.permissions)
    THEN FALSE
    ELSE TRUE

\* The constraints the callers of the model build.
Constraints ==
    {everything,
     thats_readable(everything),
     thats_readable(thats_executable(everything)),
     thats_not_writable(everything),
     thats_writable(thats_not_executable(everything)),
     thats_not_readable(everything),
     with_name(everything, "libA"),
     with_name(thats_readable(everything), "libB"),
     from(everything, 16),
     to(everything, 20),
     to(from(everything, 4), 36),
     to(everything, 12),
     from(to(everything, 8), 20),
     from(everything, 44)}

---------------------------------------------------------------------------
(* The collaborators: byteorder, signature_scanner, lde, x86_xref *)

Endians == {"LE", "BE"}

Reverse(s) == [i \in 1..Len(s) |-> s[Len(s) + 1 - i]]

RECURSIVE read_le(_)
read_le(bytes) ==
    IF Len(bytes) = 0 THEN 0 ELSE bytes[1] + ByteRadix * read_le(Tail(bytes))

\* ByteOrder::read_u64 / read_u32: the unsigned value of the bytes.
read_uint(bytes, endian) ==
    IF endian = "LE" THEN read_le(bytes) ELSE read_le(Reverse(bytes))

\* ByteOrder::read_i32: the two's complement value of the bytes.
read_i32(bytes, endian) ==
    LET u == read_uint(bytes, endian)
        half == (ByteRadix ^ Len(bytes)) \div 2
    IN  IF u >= half THEN u - 2 * half ELSE u

\* A signature is a sequence of elements: a byte, or Wildcard for any byte.
Wildcard == -2

\* Signature::matches: the signature matches the start of bytes.
matches(signature, bytes) ==
    /\ Len(signature) <= Len(bytes)
    /\ \A i \in 1..Len(signature) :
          signature[i] = Wildcard \/ signature[i] = bytes[i]

\* The offsets of bytes at which the signature matches.
match_offsets(signature, bytes) ==
    {o \in 0..Len(bytes) : matches(signature, SubSeq(bytes, o + 1, Len(bytes)))}

RECURSIVE ascending(_)
ascending(set) ==
    IF set = {} THEN <<>>
    ELSE LET m == CHOOSE x \in set : \A y \in set : x <= y
         IN  <<m>> \o ascending(set \ {m})

\* Signature::all: every match, ascending.
all(signature, bytes) == ascending(match_offsets(signature, bytes))

\* Signature::next: the first match.
next(signature, bytes) ==
    LET hits == all(signature, bytes) IN
    IF Len(hits) = 0 THEN None(0) ELSE Some(hits[1])

\* Signature::prev: the last match.
prev(signature, bytes) ==
    LET hits == all(signature, bytes) IN
    IF Len(hits) = 0 THEN None(0) ELSE Some(hits[Len(hits)])

Signatures == {<<1, 2>>, <<1, Wildcard>>, <<2, 0, 0>>, <<3, 3>>}

\* Isa::ld, the length of the first instruction of bytes, 0 when there is
\* none.  The instruction set of the model: the first byte of an instruction
\* is its length, and a first byte of 0 is no instruction.
ld(bytes) ==
    IF Len(bytes) = 0 THEN 0
    ELSE IF bytes[1] = 0 \/ bytes[1] > Len(bytes) THEN 0
    ELSE bytes[1]

\* AbsoluteFinder::all: the offsets whose pointer-sized word is the target.
absolute_offsets(bytes, endian, target) ==
    {o \in 0..Len(bytes) :
        /\ o + SizeOfUsize <= Len(bytes)
        /\ read_uint(SubSeq(bytes, o + 1, o + SizeOfUsize), endian) = target}

\* RelativeFinder::all: the offsets whose 32-bit displacement, taken from
\* the end of the instruction, leads to the target.
relative_offsets(bytes, endian, base, instruction_length, target) ==
    {o \in 0..Len(bytes) :
        /\ o + SizeOfI32 <= Len(bytes)
        /\ base + o + instruction_length
             + read_i32(SubSeq(bytes, o + 1, o + SizeOfI32), endian) = target}

\* The three finders, by kind: "all" (RelativeAndAbsoluteFinder),
\* "relative" (RelativeFinder), "absolute" (AbsoluteFinder).
finder_all(kind, bytes, endian, base, instruction_length, target) ==
    ascending(
        (IF kind \in {"all", "relative"}
         THEN relative_offsets(bytes, endian, base, instruction_length, target)
         ELSE {})
        \cup
        (IF kind \in {"all", "absolute"}
         THEN absolute_offsets(bytes, endian, target)
         ELSE {}))

---------------------------------------------------------------------------
(* SafePointer *)

\* SafePointer::new
SafePointer(address) == [address |-> address, invalid |-> FALSE]

\* A pointer whose mutation panicked carries the address Panic.
HasPanicked(ptr) == ptr.address = Panic
PanicPointer == [address |-> Panic, invalid |-> TRUE]

invalidate(ptr) == [ptr EXCEPT !.invalid = TRUE]
revalidate(ptr) == [ptr EXCEPT !.invalid = FALSE]
is_invalidated(ptr) == ptr.invalid
get_address(ptr) == ptr.address

\* is_valid, from the region find_map returned on.  The region has
\* to_address >= address, so the subtraction cannot overflow.
is_valid_in(ptr, length, region) ==
    IF region.tag = "none" THEN FALSE
    ELSE region.val.to_address - ptr.address >= length

\* SafePointer::is_valid
is_valid(ptr, length) ==
    IF ptr.invalid THEN FALSE
    ELSE is_valid_in(ptr, length, find_map(maps, ptr.address))

\* read, from the offset in the region on.
read_at(map, offset, length) == slice(map.bytes, offset, add_usize(offset, length))

\* read, from the region find_map returned on.
read_in(ptr, length, region) ==
    IF region.tag = "none" THEN None(<<>>)
    ELSE read_at(region.val, sub_usize(ptr.address, region.val.from_address), length)

\* SafePointer::read: Some(bytes), None, or a panic.
read(ptr, length) ==
    IF ~is_valid(ptr, length) THEN None(<<>>)
    ELSE read_in(ptr, length, find_map(maps, ptr.address))

\* SafePointer::add
add(ptr, operand) == [ptr EXCEPT !.address = add_usize(@, operand)]

\* SafePointer::sub
sub(ptr, operand) == [ptr EXCEPT !.address = sub_usize(@, operand)]

\* dereference, from the bytes read on.
dereference_bytes(ptr, endian, bytes) ==
    IF bytes.tag = "panic" THEN PanicPointer
    ELSE IF bytes.tag = "some"
    THEN [ptr EXCEPT !.address = read_uint(bytes.val, endian)]
    ELSE invalidate(ptr)

\* SafePointer::dereference
dereference(ptr, endian) == dereference_bytes(ptr, endian, read(ptr, SizeOfUsize))

\* relative_to_absolute, from the decoded offset on: the address is already
\* past the displacement.
apply_offset(ptr, offset) ==
    IF offset > 0 THEN add(ptr, offset)
    ELSE IF offset < 0 THEN sub(ptr, 0 - offset)
    ELSE ptr

\* relative_to_absolute, from the bytes read on.
relative_to_absolute_bytes(ptr, endian, offset_bytes) ==
    IF offset_bytes.tag = "panic" THEN PanicPointer
    ELSE IF offset_bytes.tag = "some"
    THEN apply_offset(add(ptr, SizeOfI32), read_i32(offset_bytes.val, endian))
    ELSE invalidate(ptr)

\* SafePointer::relative_to_absolute
relative_to_absolute(ptr, endian) ==
    relative_to_absolute_bytes(ptr, endian, read(ptr, SizeOfI32))

\* &map.get_bytes()[start - map.get_from_address()..end - base]
map_slice(map, start, end, base) ==
    slice(map.bytes, sub_usize(start, map.from_address), sub_usize(end, base))

\* prev_occurrence, from the result of the search on.
prev_hit(ptr, hit) ==
    IF hit.tag = "some" THEN sub(ptr, hit.val) ELSE invalidate(ptr)

\* prev_occurrence, from the slice on.
prev_occurrence_bytes(ptr, signature, bytes) ==
    IF bytes.tag = "panic" THEN PanicPointer
    ELSE prev_hit(ptr, prev(signature, bytes.val))

\* prev_occurrence, from the clamped range on.
prev_occurrence_range(ptr, signature, map, range) ==
    prev_occurrence_bytes(ptr, signature,
                          map_slice(map, range[1], range[2], map.from_address))

\* prev_occurrence, from the region find_map returned on.
prev_occurrence_in(ptr, signature, constraints, found) ==
    IF found.tag = "none" THEN invalidate(ptr)
    ELSE IF ~allows_map(constraints, found.val) THEN invalidate(ptr)
    ELSE prev_occurrence_range(ptr, signature, found.val,
             clamp_address_range(constraints, <<found.val.from_address, ptr.address>>))

\* SafePointer::prev_occurrence
prev_occurrence(ptr, signature, constraints) ==
    prev_occurrence_in(ptr, signature, constraints, find_map(maps, ptr.address))

\* next_occurrence, from the result of the search on.
next_hit(ptr, hit) ==
    IF hit.tag = "some" THEN add(ptr, hit.val) ELSE invalidate(ptr)

\* next_occurrence, from the slice on.
next_occurrence_bytes(ptr, signature, bytes) ==
    IF bytes.tag = "panic" THEN PanicPointer
    ELSE next_hit(ptr, next(signature, bytes.val))

\* next_occurrence, from the clamped range on.
next_occurrence_range(ptr, signature, map, range) ==
    next_occurrence_bytes(ptr, signature,
                          map_slice(map, range[1], range[2], map.to_address))

\* next_occurrence, from the region find_map returned on.
next_occurrence_in(ptr, signature, constraints, found) ==
    IF found.tag = "none" THEN invalidate(ptr)
    ELSE next_occurrence_range(ptr, signature, found.val,
             clamp_address_range(constraints, <<ptr.address, found.val.to_address>>))

\* SafePointer::next_occurrence
next_occurrence(ptr, signature, constraints) ==
    next_occurrence_in(ptr, signature, constraints, find_map(maps, ptr.address))

\* next_instruction, from the decoded length on.
next_instruction_len(ptr, len) ==
    IF len = 0 THEN invalidate(ptr) ELSE add(ptr, len)

\* next_instruction, from the slice on.
next_instruction_bytes(ptr, bytes) ==
    IF bytes.tag = "panic" THEN PanicPointer
    ELSE next_instruction_len(ptr, ld(bytes.val))

\* next_instruction, from the region find_map returned on.
next_instruction_in(ptr, found) ==
    IF found.tag = "none" THEN invalidate(ptr)
    ELSE next_instruction_bytes(ptr,
             slice(found.val.bytes,
                   sub_usize(ptr.address, found.val.from_address),
                   get_size(found.val)))

\* SafePointer::next_instruction
next_instruction(ptr) == next_instruction_in(ptr, find_map(maps, ptr.address))

\* does_match, from the bytes read on.
does_match_bytes(signature, bytes) ==
    IF bytes.tag = "panic" THEN "panic"
    ELSE IF bytes.tag = "some" /\ matches(signature, bytes.val) THEN "true"
    ELSE "false"

\* SafePointer::does_match
does_match(ptr, signature) == does_match_bytes(signature, read(ptr, Len(signature)))

\* get_module_name, from the region find_map returned on.
module_name_of(region) ==
    IF region.tag = "none" THEN None(Heap) ELSE Some(region.val.name)

\* SafePointer::get_module_name
get_module_name(ptr) == module_name_of(find_map(maps, ptr.address))

AnyPanicked(ptrs) == \E i \in 1..Len(ptrs) : HasPanicked(ptrs[i])

\* The pointers new(maps, base + offset) of the offsets a finder yielded, or
\* a panic.
pointers_at(base, offsets) ==
    [i \in 1..Len(offsets) |-> SafePointer(add_usize(offsets[i], base))]

\* .collect::<Vec<_>>() inside a closure: the vector, or the closure panics.
collected(ptrs) == IF AnyPanicked(ptrs) THEN Panicked(<<>>) ELSE Some(ptrs)

\* Two parts of an iterator that is collected inside a closure: the closure
\* panics when either does.
joined(here, rest) ==
    IF here.tag = "panic" \/ rest.tag = "panic" THEN Panicked(<<>>)
    ELSE Some(here.val \o rest.val)

\* Two parts of a lazy flat_map: what the first part yields comes out before
\* the second part is run.
chained(here, rest) ==
    IF here.tag = "panic" THEN here
    ELSE [tag |-> rest.tag, val |-> here.val \o rest.val]

\* The index of the first element of a lazy stream whose closure panics,
\* Len + 1 when none does.
first_panic(flags) ==
    IF \E i \in 1..Len(flags) : flags[i]
    THEN CHOOSE i \in 1..Len(flags) : flags[i] /\ \A j \in 1..(i - 1) : ~flags[j]
    ELSE Len(flags) + 1

\* A lazy .map over a stream, from the results of the closure on: the
\* results before the first panic, and the panic.
streamed(ptrs) ==
    IF AnyPanicked(ptrs)
    THEN Panicked(SubSeq(ptrs, 1,
             first_panic([i \in 1..Len(ptrs) |-> HasPanicked(ptrs[i])]) - 1))
    ELSE Some(ptrs)

\* The closure of find_*_references for one region, from the slice on.
region_references_bytes(map, ptr, kind, endian, instruction_length, bytes) ==
    IF bytes.tag = "panic" THEN Panicked(<<>>)
    ELSE collected(pointers_at(map.from_address,
             finder_all(kind, bytes.val, endian, map.from_address,
                        instruction_length, ptr.address)))

\* The closure of find_*_references for one region, from the clamped range on.
region_references_range(map, ptr, kind, endian, instruction_length, range) ==
    region_references_bytes(map, ptr, kind, endian, instruction_length,
                            map_slice(map, range[1], range[2], map.from_address))

\* The closure of find_*_references for one region: the new pointers, or a
\* panic.
region_references(map, ptr, kind, endian, instruction_length, constraints) ==
    region_references_range(map, ptr, kind, endian, instruction_length,
        clamp_address_range(constraints, <<map.from_address, map.to_address>>))

\* SafePointer::find_all_references / find_relative_references /
\* find_absolute_references, by the kind of finder, as Session collects it:
\* the regions are visited in the heap's iteration order, those the
\* constraints reject are skipped.
RECURSIVE find_references(_, _, _, _, _, _)
find_references(ms, ptr, kind, endian, instruction_length, constraints) ==
    IF Len(ms) = 0 THEN Some(<<>>)
    ELSE IF ~allows_map(constraints, Head(ms))
    THEN find_references(Tail(ms), ptr, kind, endian, instruction_length, constraints)
    ELSE joined(region_references(Head(ms), ptr, kind, endian,
                                  instruction_length, constraints),
                find_references(Tail(ms), ptr, kind, endian,
                                instruction_length, constraints))

---------------------------------------------------------------------------
(* BcrlFactory *)

\* The closure of BcrlFactory::signature for one region, from the slice on.
signature_bytes(map, pattern, bytes) ==
    IF bytes.tag = "panic" THEN Panicked(<<>>)
    ELSE collected(pointers_at(map.from_address, all(pattern, bytes.val)))

\* The closure of BcrlFactory::signature for one region, from the clamped
\* range on.
signature_range(map, pattern, range) ==
    signature_bytes(map, pattern,
                    map_slice(map, range[1], range[2], map.from_address))

\* The closure of BcrlFactory::signature for one region.
signature_in_region(map, pattern, constraints) ==
    IF ~allows_map(constraints, map) THEN Some(<<>>)
    ELSE signature_range(map, pattern,
             clamp_address_range(constraints, <<map.from_address, map.to_address>>))

\* BcrlFactory::signature: the stream of the session, a lazy flat_map over
\* the regions.
RECURSIVE signature(_, _, _)
signature(ms, pattern, constraints) ==
    IF Len(ms) = 0 THEN Some(<<>>)
    ELSE chained(signature_in_region(Head(ms), pattern, constraints),
                 signature(Tail(ms), pattern, constraints))

\* pointers that keeps only the addresses some region of the snapshot holds.
pointers_checked(addresses) ==
    LET Held(address) == \E i \in 1..Len(maps) : maps[i].from_address <= address
                                              /\ address < maps[i].to_address
    IN  [i \in 1..Len(SelectSeq(addresses, Held)) |->
            SafePointer(SelectSeq(addresses, Held)[i])]

\* BcrlFactory::pointers
pointers(addresses) == [i \in 1..Len(addresses) |-> SafePointer(addresses[i])]

\* BcrlFactory::pointer
pointer(address) == <<SafePointer(address)>>

---------------------------------------------------------------------------
(* Session.  A closure handed to a stage is a record naming what it does. *)

\* The closures over &mut SafePointer: those the Session methods build, and
\* those a caller passes to mutate, repeat_n and repeat_while.
RECURSIVE call(_, _)
RECURSIVE repeat(_, _, _)
RECURSIVE while(_, _)

\* for _ in 0..iterations { f(ptr) }
repeat(f, iterations, ptr) ==
    IF iterations = 0 \/ HasPanicked(ptr) THEN ptr
    ELSE repeat(f, iterations - 1, call(f, ptr))

\* while f(ptr) {}, for the closure that steps while the address is below a
\* limit: |ptr| ptr.get_address() < limit && { ptr.add(by); true }
while(f, ptr) ==
    IF HasPanicked(ptr) \/ ~(ptr.address < f.limit) THEN ptr
    ELSE while(f, add(ptr, f.by))

call(f, ptr) ==
    CASE f.op = "add" -> add(ptr, f.operand)
      [] f.op = "sub" -> sub(ptr, f.operand)
      [] f.op = "dereference" -> dereference(ptr, f.endian)
      [] f.op = "relative_to_absolute" -> relative_to_absolute(ptr, f.endian)
      [] f.op = "prev_occurrence" -> prev_occurrence(ptr, f.signature, f.constraints)
      [] f.op = "next_occurrence" -> next_occurrence(ptr, f.signature, f.constraints)
      [] f.op = "next_instruction" -> next_instruction(ptr)
      [] f.op = "invalidate" -> invalidate(ptr)
      [] f.op = "revalidate" -> revalidate(ptr)
      [] f.op = "repeat" -> repeat(f.f, f.iterations, ptr)
      [] f.op = "while" -> while(f, ptr)

IsLive(ptr) == ~is_invalidated(ptr)

\* .filter(|ptr| !ptr.is_invalidated()) on what the stage before it yields.
filter_invalidated(found) == [found EXCEPT !.val = SelectSeq(@, IsLive)]

\* .map(f) of a stream.
map_call(s, f) == streamed([i \in 1..Len(s) |-> call(f, s[i])])

\* mutate without its trailing filter.
mutate_unfiltered(s, f) == map_call(s, f)

\* Session::mutate: f on every pointer, then the filter on is_invalidated.
mutate(s, f) == filter_invalidated(map_call(s, f))

step_forwards(s, operand) == mutate(s, [op |-> "add", operand |-> operand])
step_backwards(s, operand) == mutate(s, [op |-> "sub", operand |-> operand])
session_dereference(s, endian) == mutate(s, [op |-> "dereference", endian |-> endian])
session_relative_to_absolute(s, endian) ==
    mutate(s, [op |-> "relative_to_absolute", endian |-> endian])
session_prev_occurrence(s, sig, constraints) ==
    mutate(s, [op |-> "prev_occurrence", signature |-> sig, constraints |-> constraints])
session_next_occurrence(s, sig, constraints) ==
    mutate(s, [op |-> "next_occurrence", signature |-> sig, constraints |-> constraints])
session_next_instruction(s) == mutate(s, [op |-> "next_instruction"])
repeat_n(s, iterations, f) ==
    mutate(s, [op |-> "repeat", iterations |-> iterations, f |-> f])
repeat_while(s, f) == mutate(s, f)

\* The flat_map of the three find_*_references stages.
RECURSIVE flat_references(_, _, _, _, _)
flat_references(s, kind, endian, instruction_length, constraints) ==
    IF Len(s) = 0 THEN Some(<<>>)
    ELSE chained(find_references(maps, Head(s), kind, endian,
                                 instruction_length, constraints),
                 flat_references(Tail(s), kind, endian,
                                 instruction_length, constraints))

\* Session::find_all_references / find_relative_references /
\* find_absolute_references: the flat_map, then the filter on is_invalidated.
session_find_references(s, kind, endian, instruction_length, constraints) ==
    filter_invalidated(flat_references(s, kind, endian, instruction_length, constraints))

\* Session::signature_filter
signature_filter(s, sig) ==
    LET Keep(ptr) == does_match(ptr, sig) = "true"
        n == first_panic([i \in 1..Len(s) |-> does_match(s[i], sig) = "panic"])
    IN  IF n <= Len(s) THEN Panicked(SelectSeq(SubSeq(s, 1, n - 1), Keep))
        ELSE Some(SelectSeq(s, Keep))

\* The closure of filter_module on the name of the pointer's region.
module_is(module, module_name) ==
    /\ module.tag = "some"
    /\ module.val.kind \in {"Path", "Other"}
    /\ module.val.file = module_name

\* Session::filter_module
filter_module(s, module_name) ==
    LET Keep(ptr) == module_is(get_module_name(ptr), module_name)
    IN  Some(SelectSeq(s, Keep))

\* Session::filter, for the predicate |ptr| ptr.get_address() < limit
filter(s, limit) ==
    LET Keep(ptr) == get_address(ptr) < limit IN Some(SelectSeq(s, Keep))

\* Session::map, for the closures over a pointer: no filter follows.
session_map(s, f) == map_call(s, f)

\* Session::inspect
inspect(s) == Some(s)

\* Session::get_pointer
get_pointer(s) ==
    LET result == IF Len(s) = 0 THEN None(0) ELSE Some(Head(s))
        count == IF Len(s) = 0 THEN 0 ELSE Len(s) - 1
    IN  IF result.tag = "some" /\ count = 0
        THEN [ok |-> TRUE, val |-> get_address(result.val)]
        ELSE [ok |-> FALSE, val |-> count + 1]

\* Session::get_pool
get_pool(s) == [i \in 1..Len(s) |-> get_address(s[i])]

---------------------------------------------------------------------------
(* The inputs of the model *)

ProbeAddresses == {0, 1, 4, 11, 12, 13, 16, 17, 23, 24, 32, 36, 40, UsizeMax}
SeedAddresses == {0, 16, 20}
SeedLists == {<<>>, <<0>>, <<0, 16>>, <<16, 16>>, <<32, 0>>, <<16, UsizeMax>>}
StageConstraints == {everything, to(thats_readable(everything), 12)}
SeedConstraints == StageConstraints \cup {with_name(everything, "libA")}
PointerClosures ==
    {[op |-> "add", operand |-> n] : n \in {0, 4, UsizeMax}}
    \cup {[op |-> "sub", operand |-> n] : n \in {0, 1, 16}}
    \cup {[op |-> "dereference", endian |-> e] : e \in Endians}
    \cup {[op |-> "relative_to_absolute", endian |-> e] : e \in Endians}
    \cup {[op |-> "next_instruction"]}
    \cup {[op |-> o, signature |-> sig, constraints |-> c] :
             o \in {"prev_occurrence", "next_occurrence"},
             sig \in {<<1, 2>>, <<0, 0>>}, c \in StageConstraints}
Ranges ==
    {<<0, 12>>, <<16, 24>>, <<32, 40>>, <<16, 20>>, <<20, 24>>, <<0, 0>>,
     <<UsizeMax - 4, UsizeMax>>}
Closures ==
    {[op |-> "invalidate"], [op |-> "revalidate"], [op |-> "add", operand |-> 1]}
WhileClosures == {[op |-> "while", limit |-> 18, by |-> 1],
                  [op |-> "while", limit |-> 1, by |-> UsizeMax]}

---------------------------------------------------------------------------
(* The state machine *)

Record(op, arg, pre, res) == [op |-> op, arg |-> arg, pre |-> pre, res |-> res]

Init ==
    /\ maps = <<>>
    /\ build \in {"debug", "release"}
    /\ lib \in 0..MaxRegions
    /\ pc = "capture"
    /\ pool = <<>>
    /\ broken = FALSE
    /\ steps = 0
    /\ last = Record("new", <<>>, <<>>, <<>>)

\* BcrlFactory::from_files, one iteration of the loop for a region that was
\* read in full (a region read short is skipped: it is never captured).
Capture(map) ==
    /\ pc = "capture"
    /\ Len(maps) < MaxRegions
    /\ \A i \in 1..Len(maps) : ~Overlap(maps[i], map)
    /\ maps' = heap_insert(maps, map)
    /\ UNCHANGED <<build, lib, pc, pool, broken, steps, last>>

\* BcrlFactory::from_files returns the factory.
Ready ==
    /\ pc = "capture"
    /\ pc' = "ready"
    /\ UNCHANGED <<maps, build, lib, pool, broken, steps, last>>

\* A call of a method that leaves the factory as it is: it returns, or it
\* panics and the caller unwinds (the program never resumes from there).
Call(op, arg, res, panics) ==
    /\ pc = "ready"
    /\ last' = Record(op, arg, <<>>, res)
    /\ pc' = IF panics THEN "panicked" ELSE "done"
    /\ UNCHANGED <<maps, build, lib, pool, broken, steps>>

CallFindMap(address) == Call("find_map", address, find_map(maps, address), FALSE)

CallContains(map, address) ==
    Call("contains", [map |-> map, address |-> address], contains(map, address),
         FALSE)

CallRead(ptr, length) ==
    Call("read", [ptr |-> ptr, length |-> length],
         [valid |-> is_valid(ptr, length), bytes |-> read(ptr, length)],
         read(ptr, length).tag = "panic")

\* A call of a method of a SafePointer the caller holds.
CallPointer(f, ptr) ==
    Call("call", [f |-> f, ptr |-> ptr], call(f, ptr), HasPanicked(call(f, ptr)))

CallAllowsMap(c, map) ==
    Call("allows_map", [constraints |-> c, map |-> map], allows_map(c, map),
         FALSE)

CallClamp(c, range) ==
    Call("clamp_address_range", [constraints |-> c, range |-> range],
         clamp_address_range(c, range),
         Panic \in {clamp_address_range(c, range)[1],
                    clamp_address_range(c, range)[2]})

\* A seed: the session starts with the stream res, which is not pulled yet.
Seed(op, arg, res) ==
    /\ pc = "ready"
    /\ last' = Record(op, arg, <<>>, res.tag)
    /\ pc' = "session"
    /\ pool' = res.val
    /\ broken' = (res.tag = "panic")
    /\ steps' = 0
    /\ UNCHANGED <<maps, build, lib>>

SeedSignature(pattern, c) ==
    Seed("signature", [pattern |-> pattern, constraints |-> c],
         signature(maps, pattern, c))

SeedPointers(addresses) == Seed("pointers", addresses, Some(pointers(addresses)))

SeedPointer(address) == Seed("pointer", address, Some(pointer(address)))

\* A stage is attached to the session, and nothing is pulled: the stream
\* becomes what the stage yields of the pointers of the stream before it,
\* and it panics where the stage's closure does or the stream before it did.
Stage(op, arg, res) ==
    /\ pc = "session"
    /\ steps < MaxSteps
    /\ last' = Record(op, arg, pool, res.tag)
    /\ pc' = "session"
    /\ pool' = res.val
    /\ broken' = (broken \/ res.tag = "panic")
    /\ steps' = steps + 1
    /\ UNCHANGED <<maps, build, lib>>

StepForwards(n) == Stage("step_forwards", n, step_forwards(pool, n))
StepBackwards(n) == Stage("step_backwards", n, step_backwards(pool, n))
Dereference(e) == Stage("dereference", e, session_dereference(pool, e))
RelativeToAbsolute(e) ==
    Stage("relative_to_absolute", e, session_relative_to_absolute(pool, e))
PrevOccurrence(sig, c) ==
    Stage("prev_occurrence", [signature |-> sig, constraints |-> c],
          session_prev_occurrence(pool, sig, c))
NextOccurrence(sig, c) ==
    Stage("next_occurrence", [signature |-> sig, constraints |-> c],
          session_next_occurrence(pool, sig, c))
NextInstruction == Stage("next_instruction", <<>>, session_next_instruction(pool))
FindAllReferences(e, len, c) ==
    Stage("find_all_references",
          [endian |-> e, instruction_length |-> len, constraints |-> c],
          session_find_references(pool, "all", e, len, c))
FindRelativeReferences(e, len, c) ==
    Stage("find_relative_references",
          [endian |-> e, instruction_length |-> len, constraints |-> c],
          session_find_references(pool, "relative", e, len, c))
FindAbsoluteReferences(e, c) ==
    Stage("find_absolute_references", [endian |-> e, constraints |-> c],
          session_find_references(pool, "absolute", e, 0, c))
SignatureFilter(sig) == Stage("signature_filter", sig, signature_filter(pool, sig))
FilterModule(name) == Stage("filter_module", name, filter_module(pool, name))
Filter(limit) == Stage("filter", limit, filter(pool, limit))
Mutate(f) == Stage("mutate", f, mutate(pool, f))
RepeatN(k, f) == Stage("repeat_n", [iterations |-> k, f |-> f], repeat_n(pool, k, f))
RepeatWhile(f) == Stage("repeat_while", f, repeat_while(pool, f))
Map(f) == Stage("map", f, session_map(pool, f))
Inspect == Stage("inspect", <<>>, inspect(pool))

\* A terminal method that drains the stream (next, then count): it returns
\* res, or panics when the stream does.  Its record keeps, as arg, the
\* record of the seed or stage the session came from.
Terminal(op, res) ==
    /\ pc = "session"
    /\ last' = Record(op, [op |-> last.op, arg |-> last.arg], pool,
                      IF broken THEN Panicked(<<>>) ELSE res)
    /\ pc' = IF broken THEN "panicked" ELSE "done"
    /\ pool' = <<>>
    /\ broken' = FALSE
    /\ UNCHANGED <<maps, build, lib, steps>>

GetPointer == Terminal("get_pointer", get_pointer(pool))

\* get_pool wraps the stream in the iterator of the addresses and pulls
\* nothing.  Its record holds the addresses the iterator yields.
GetPool ==
    /\ pc = "session"
    /\ last' = Record("get_pool", [op |-> last.op, arg |-> last.arg], pool,
                      get_pool(pool))
    /\ pc' = "pool"
    /\ UNCHANGED <<maps, build, lib, pool, broken, steps>>

\* next() on the iterator of get_pool: the address of the next pointer, a
\* panic where the stream panics, None at its end.
PoolNext ==
    /\ pc = "pool"
    /\ \/ /\ Len(pool) > 0
          /\ last' = Record("next", <<>>, pool, Some(get_address(Head(pool))))
          /\ pool' = Tail(pool)
          /\ UNCHANGED <<pc, broken>>
       \/ /\ Len(pool) = 0
          /\ broken
          /\ last' = Record("next", <<>>, pool, Panicked(0))
          /\ pc' = "panicked"
          /\ broken' = FALSE
          /\ UNCHANGED pool
       \/ /\ Len(pool) = 0
          /\ ~broken
          /\ last' = Record("next", <<>>, pool, None(0))
          /\ pc' = "done"
          /\ UNCHANGED <<pool, broken>>
    /\ UNCHANGED <<maps, build, lib, steps>>

\* The session, or the iterator of get_pool, is dropped with what is left
\* in the stream: nothing more is pulled.
Drop ==
    /\ pc \in {"session", "pool"}
    /\ last' = Record("drop", <<>>, pool, <<>>)
    /\ pc' = "done"
    /\ pool' = <<>>
    /\ broken' = FALSE
    /\ UNCHANGED <<maps, build, lib, steps>>

\* The factory outlives the session: the caller may start another one.
Again ==
    /\ pc = "done"
    /\ pc' = "ready"
    /\ steps' = 0
    /\ last' = Record("new", <<>>, <<>>, <<>>)
    /\ UNCHANGED <<maps, build, lib, pool, broken>>

Next ==
    \/ \E map \in SourceRegions : Capture(map)
    \/ Ready
    \/ \E a \in ProbeAddresses : CallFindMap(a)
    \/ \E map \in SourceRegions, a \in ProbeAddresses : CallContains(map, a)
    \/ \E a \in ProbeAddresses, i \in BOOLEAN, n \in 0..MaxRead :
          CallRead([address |-> a, invalid |-> i], n)
    \/ \E f \in PointerClosures, a \in ProbeAddresses, i \in BOOLEAN :
          CallPointer(f, [address |-> a, invalid |-> i])
    \/ \E c \in Constraints, map \in SourceRegions : CallAllowsMap(c, map)
    \/ \E c \in Constraints, range \in Ranges : CallClamp(c, range)
    \/ \E sig \in {<<1, 2>>, <<2, 0, 0>>}, c \in SeedConstraints : SeedSignature(sig, c)
    \/ \E l \in SeedLists : SeedPointers(l)
    \/ \E a \in SeedAddresses : SeedPointer(a)
    \/ \E n \in {4, UsizeMax} : StepForwards(n)
    \/ \E n \in {1, 16} : StepBackwards(n)
    \/ \E e \in Endians : Dereference(e)
    \/ \E e \in {"LE"} : RelativeToAbsolute(e)
    \/ \E sig \in {<<1, 2>>}, c \in StageConstraints : PrevOccurrence(sig, c)
    \/ \E sig \in {<<1, 2>>}, c \in StageConstraints : NextOccurrence(sig, c)
    \/ NextInstruction
    \/ \E e \in {"LE"}, len \in {4}, c \in StageConstraints :
          FindAllReferences(e, len, c)
    \/ \E e \in {"LE"}, len \in {4}, c \in StageConstraints :
          FindRelativeReferences(e, len, c)
    \/ \E e \in {"LE"}, c \in StageConstraints : FindAbsoluteReferences(e, c)
    \/ \E sig \in {<<1, 2>>} : SignatureFilter(sig)
    \/ \E name \in {"libA"} : FilterModule(name)
    \/ \E limit \in {17} : Filter(limit)
    \/ \E f \in Closures : Mutate(f)
    \/ \E k \in {2}, f \in {[op |-> "add", operand |-> 1], [op |-> "next_instruction"]} :
          RepeatN(k, f)
    \/ \E f \in WhileClosures : RepeatWhile(f)
    \/ \E f \in {[op |-> "invalidate"], [op |-> "add", operand |-> 1]} : Map(f)
    \/ Inspect
    \/ GetPointer
    \/ GetPool
    \/ PoolNext
    \/ Drop
    \/ Again

Spec == Init /\ [][Next]_vars

---------------------------------------------------------------------------
(* What the claims speak of, stated on the snapshot and not on the code *)

Regions == {maps[i] : i \in 1..Len(maps)}

\* The regions holding the address: from <= address < to.
Holders(address) ==
    {r \in Regions : r.from_address <= address /\ address < r.to_address}

\* The regions holding length bytes at the address.
Windows(address, length) ==
    {r \in Regions : r.from_address <= address /\ address + length <= r.to_address}

\* r.bytes[address - r.from .. address - r.from + length]
Window(r, address, length) ==
    SubSeq(r.bytes, address - r.from_address + 1, address - r.from_address + length)

Addresses(ptrs) == {ptrs[i].address : i \in 1..Len(ptrs)}

---------------------------------------------------------------------------
(* C1 *)

\* C1: find_map returns the region r with r.from <= a < r.to when the
\* snapshot has one, and nothing when no region contains a.
C1_FindReturnsTheHolder ==
    last.op = "find_map" =>
        IF Holders(last.arg) # {}
        THEN last.res.tag = "some" /\ last.res.val \in Holders(last.arg)
        ELSE last.res.tag = "none"

---------------------------------------------------------------------------
(* C2 *)

\* C2: read(L) returns the window r.bytes[a - r.from .. a - r.from + L]
\* exactly when the pointer is not invalid and a region r has r.from <= a and
\* a + L <= r.to; otherwise read returns none and is_valid(L) is false.
C2_ReadReturnsTheWindow ==
    last.op = "read" =>
        LET a == last.arg.ptr.address
            L == last.arg.length
        IN  IF ~last.arg.ptr.invalid /\ Windows(a, L) # {}
            THEN \E r \in Windows(a, L) : last.res.bytes = Some(Window(r, a, L))
            ELSE last.res.bytes = None(<<>>) /\ ~last.res.valid

---------------------------------------------------------------------------
(* C3 *)

\* C3: get_pointer returns Ok(address) iff the stream yields exactly one
\* pointer, and otherwise Err(n) with n the number of pointers the stream
\* yields, Err(0) for an empty stream.
C3_GetPointerCountsExactly ==
    (last.op = "get_pointer" /\ pc = "done") =>
        IF Len(last.pre) = 1
        THEN last.res = [ok |-> TRUE, val |-> last.pre[1].address]
        ELSE last.res = [ok |-> FALSE, val |-> Len(last.pre)]

---------------------------------------------------------------------------
(* C4 *)

InvalidatingStages ==
    {"step_forwards", "step_backwards", "dereference", "relative_to_absolute",
     "next_instruction", "prev_occurrence", "next_occurrence", "mutate",
     "repeat_n", "repeat_while", "find_all_references",
     "find_relative_references", "find_absolute_references"}

Terminals == {"get_pointer", "get_pool"}

\* C4: after every stage that may invalidate, the stream handed to the next
\* stage or to a terminal method yields no pointer with invalid = true, up
\* to its end or to the pull at which it panics.
C4_NoInvalidPointerIsPassedOn ==
    /\ (pc = "session" /\ last.op \in InvalidatingStages) =>
           \A i \in 1..Len(pool) : ~pool[i].invalid
    /\ (last.op \in Terminals /\ last.arg.op \in InvalidatingStages) =>
           \A i \in 1..Len(last.pre) : ~last.pre[i].invalid

\* A dereference moved one pointer of the pool and invalidated another one,
\* which the stage dropped.
C4_Witness ==
    /\ pc = "session"
    /\ last.op = "dereference"
    /\ \A i \in 1..Len(last.pre) : ~last.pre[i].invalid
    /\ 0 < Len(pool)
    /\ Len(pool) < Len(last.pre)

---------------------------------------------------------------------------
(* C5 *)

Walks ==
    {"dereference", "relative_to_absolute", "next_instruction",
     "prev_occurrence", "next_occurrence"}

\* The walk f cannot advance the pointer: the read fails, the address is in
\* no region, the decoder returns length 0, or the signature is not found
\* before (prev) or from (next) the address in its region.
CannotAdvance(f, ptr) ==
    CASE f.op = "dereference" ->
            ptr.invalid \/ Windows(ptr.address, SizeOfUsize) = {}
      [] f.op = "relative_to_absolute" ->
            ptr.invalid \/ Windows(ptr.address, SizeOfI32) = {}
      [] f.op = "next_instruction" ->
            \A r \in Holders(ptr.address) :
                ld(Window(r, ptr.address, r.to_address - ptr.address)) = 0
      [] f.op = "prev_occurrence" ->
            \A r \in Holders(ptr.address) :
                match_offsets(f.signature,
                    Window(r, r.from_address, ptr.address - r.from_address)) = {}
      [] f.op = "next_occurrence" ->
            \A r \in Holders(ptr.address) :
                match_offsets(f.signature,
                    Window(r, ptr.address, r.to_address - ptr.address)) = {}

\* C5: a walk that cannot advance returns with invalid = true, and a walk
\* that invalidates a pointer leaves its address at the value it had before
\* the walk.
C5_FailedWalkInvalidatesInPlace ==
    (last.op = "call" /\ last.arg.f.op \in Walks) =>
        /\ CannotAdvance(last.arg.f, last.arg.ptr) =>
               ~HasPanicked(last.res) /\ last.res.invalid
        /\ (last.res.invalid /\ ~last.arg.ptr.invalid) =>
               last.res.address = last.arg.ptr.address

---------------------------------------------------------------------------
(* C6 *)

\* C6: add(n) with a + n above the maximum address and sub(n) with n > a
\* clamp the address to the representable range and invalidate the pointer.
C6_OverflowClampsAndInvalidates ==
    (last.op = "call" /\ ~last.arg.ptr.invalid) =>
        /\ (last.arg.f.op = "add" /\ last.arg.ptr.address + last.arg.f.operand > UsizeMax)
              => last.res = [address |-> UsizeMax, invalid |-> TRUE]
        /\ (last.arg.f.op = "sub" /\ last.arg.f.operand > last.arg.ptr.address)
              => last.res = [address |-> 0, invalid |-> TRUE]

---------------------------------------------------------------------------
(* C9 and C10: SearchConstraints as the claims state it *)

\* The window [lo, hi) of the constraints overlaps [from, to).
WindowOverlaps(c, from_address, to_address) ==
    c.address_range[1] < to_address /\ from_address < c.address_range[2]

PermissionMatches(want, bit) == want = NoBool \/ want = SomeBool(bit)

\* allows(r) as the claim states it.
ClaimedAllows(c, r) ==
    /\ \A i \in 1..Len(c.predicates) : name_predicate(c.predicates[i], r)
    /\ WindowOverlaps(c, r.from_address, r.to_address)
    /\ PermissionMatches(c.readable, "r" \in r.permissions)
    /\ PermissionMatches(c.writable, "w" \in r.permissions)
    /\ PermissionMatches(c.executable, "x" \in r.permissions)

\* clamp as the claim states it: [max(from, lo), min(to, hi)), absolute.
ClaimedClamp(c, range) ==
    <<Max(range[1], c.address_range[1]), Min(range[2], c.address_range[2])>>

\* C9: allows(r) is true exactly when every predicate holds for r, the
\* window overlaps [r.from, r.to) and every permission tri-state is unset or
\* equal to r's bit.
C9_AllowsIsOverlapAndPermissions ==
    last.op = "allows_map" =>
        last.res = ClaimedAllows(last.arg.constraints, last.arg.map)

\* C10: clamp returns the intersection [max(from, lo), min(to, hi)) in
\* absolute addresses, and an empty range when the window is disjoint from
\* the range.
C10_ClampIsTheAbsoluteIntersection ==
    last.op = "clamp_address_range" =>
        LET want == ClaimedClamp(last.arg.constraints, last.arg.range) IN
        IF want[1] < want[2]
        THEN last.res = want
        ELSE /\ last.res[1] # Panic
             /\ last.res[2] # Panic
             /\ last.res[1] >= last.res[2]

---------------------------------------------------------------------------
(* C7 and C8: the seeds and the fan-outs as the claims state them *)

\* The offsets o of r at which a match or a reference of `size` bytes lies
\* inside the window of the constraints clamped to r.
InWindow(c, r, offsets, size) ==
    {o \in offsets :
        /\ ClaimedClamp(c, <<r.from_address, r.to_address>>)[1] <= r.from_address + o
        /\ r.from_address + o + size
             <= ClaimedClamp(c, <<r.from_address, r.to_address>>)[2]}

\* The addresses signature(s, c) is to emit.
ClaimedMatches(pattern, c) ==
    UNION {{r.from_address + o :
               o \in InWindow(c, r, match_offsets(pattern, r.bytes), Len(pattern))} :
           r \in {x \in Regions : ClaimedAllows(c, x)}}

\* C7: signature(s, c) emits one pointer per match of s inside each region
\* that c allows, at the address region.from + offset of the match.
C7_SignatureEmitsEveryMatch ==
    last.op = "signature" =>
        /\ ~broken
        /\ Addresses(pool) = ClaimedMatches(last.arg.pattern, last.arg.constraints)
        /\ Len(pool) = Cardinality(Addresses(pool))

FanOuts ==
    {"find_all_references", "find_relative_references", "find_absolute_references"}

\* The offsets of r whose bytes reference the target, for a fan-out stage.
ClaimedOffsets(op, arg, r, target) ==
    (IF op \in {"find_all_references", "find_relative_references"}
     THEN InWindow(arg.constraints, r,
              relative_offsets(r.bytes, arg.endian, r.from_address,
                               arg.instruction_length, target), SizeOfI32)
     ELSE {})
    \cup
    (IF op \in {"find_all_references", "find_absolute_references"}
     THEN InWindow(arg.constraints, r,
              absolute_offsets(r.bytes, arg.endian, target), SizeOfUsize)
     ELSE {})

\* The addresses a fan-out stage is to put in the place of a pointer.
ClaimedReferences(op, arg, target) ==
    UNION {{r.from_address + o : o \in ClaimedOffsets(op, arg, r, target)} :
           r \in {x \in Regions : ClaimedAllows(arg.constraints, x)}}

Occurrences(ptrs, address) ==
    Cardinality({i \in 1..Len(ptrs) : ptrs[i].address = address})

\* C8: a fan-out stage replaces each pointer of the stream by the pointers at
\* r.from + o, one for every offset o of every allowed region r whose bytes
\* reference the pointer's address.
C8_FanOutEmitsEveryReference ==
    last.op \in FanOuts =>
        /\ last.res # "panic"
        /\ \A a \in Addresses(pool)
                 \cup UNION {ClaimedReferences(last.op, last.arg, last.pre[i].address) :
                                i \in 1..Len(last.pre)} :
              Occurrences(pool, a) =
                  Cardinality({i \in 1..Len(last.pre) :
                      a \in ClaimedReferences(last.op, last.arg, last.pre[i].address)})

---------------------------------------------------------------------------
(* C11 and C12: the occurrence walks as the claims state them *)

\* The offsets o of r at which the signature matches with all its bytes
\* inside [lo, hi).
HitsIn(sig, r, lo, hi) ==
    {o \in match_offsets(sig, r.bytes) :
        lo <= r.from_address + o /\ r.from_address + o + Len(sig) <= hi}

\* prev_occurrence as the claim states it, for a pointer inside r.
ClaimedPrev(ptr, sig, c, r) ==
    LET range == ClaimedClamp(c, <<r.from_address, ptr.address>>)
        hits == HitsIn(sig, r, range[1], range[2])
    IN  IF ~ClaimedAllows(c, r) \/ hits = {} THEN invalidate(ptr)
        ELSE [ptr EXCEPT !.address =
                 r.from_address + CHOOSE o \in hits : \A x \in hits : x <= o]

\* next_occurrence as the claim states it, for a pointer inside r.
ClaimedNext(ptr, sig, c, r) ==
    LET range == ClaimedClamp(c, <<ptr.address, r.to_address>>)
        hits == HitsIn(sig, r, range[1], range[2])
    IN  IF ~ClaimedAllows(c, r) \/ hits = {} THEN invalidate(ptr)
        ELSE [ptr EXCEPT !.address =
                 r.from_address + CHOOSE o \in hits : \A x \in hits : o <= x]

\* C11: prev_occurrence on a pointer at a inside region r invalidates the
\* pointer when the constraints do not allow r or the signature has no match
\* in [r.from, a) clamped by the constraints, and otherwise sets the address
\* to r.from + offset of the last match before a.
C11_PrevOccurrenceFindsTheLastMatch ==
    (/\ last.op = "call"
     /\ last.arg.f.op = "prev_occurrence"
     /\ ~last.arg.ptr.invalid) =>
        \A r \in Holders(last.arg.ptr.address) :
            last.res = ClaimedPrev(last.arg.ptr, last.arg.f.signature,
                                   last.arg.f.constraints, r)

\* C12: next_occurrence on a pointer at a inside region r invalidates the
\* pointer when the constraints do not allow r or the signature has no match
\* in [a, r.to) clamped by the constraints, and otherwise sets the address to
\* the absolute address of the first match at or after a.
C12_NextOccurrenceFindsTheFirstMatch ==
    (/\ last.op = "call"
     /\ last.arg.f.op = "next_occurrence"
     /\ ~last.arg.ptr.invalid) =>
        \A r \in Holders(last.arg.ptr.address) :
            last.res = ClaimedNext(last.arg.ptr, last.arg.f.signature,
                                   last.arg.f.constraints, r)

---------------------------------------------------------------------------
(* C13 and C14: the two walks that read the address from memory *)

\* C13: relative_to_absolute on a valid pointer at a whose next 4 bytes
\* decode to the signed displacement d sets the address to a + 4 + d (where
\* that is an address) and leaves the pointer valid.
C13_RelativeToAbsoluteAddsPastTheDisplacement ==
    (/\ last.op = "call"
     /\ last.arg.f.op = "relative_to_absolute"
     /\ ~last.arg.ptr.invalid) =>
        \A r \in Windows(last.arg.ptr.address, SizeOfI32) :
            LET a == last.arg.ptr.address
                d == read_i32(Window(r, a, SizeOfI32), last.arg.f.endian)
            IN  (0 <= a + SizeOfI32 + d /\ a + SizeOfI32 + d <= UsizeMax) =>
                    last.res = SafePointer(a + SizeOfI32 + d)

\* C14: dereference on a pointer at a, where a pointer-sized word is
\* readable at a inside one region and encodes a', leaves the pointer at a'
\* and not invalidated.
C14_DereferenceReadsTheWord ==
    (/\ last.op = "call"
     /\ last.arg.f.op = "dereference"
     /\ ~last.arg.ptr.invalid) =>
        \A r \in Windows(last.arg.ptr.address, SizeOfUsize) :
            last.res = SafePointer(read_uint(
                Window(r, last.arg.ptr.address, SizeOfUsize), last.arg.f.endian))

---------------------------------------------------------------------------
(* C15 *)

Ascending(addresses) ==
    \A i, j \in 1..Len(addresses) : i < j => addresses[i] < addresses[j]

\* C15: iterating the snapshot yields the regions in ascending from order
\* whatever the order of insertion, and the pointers of a signature seed or
\* of the fan-out of one pointer come by region, then by ascending offset.
C15_IterationAscendsByFrom ==
    /\ Ascending(from_addresses(maps))
    /\ (/\ pc = "session"
        /\ \/ last.op = "signature"
           \/ last.op \in FanOuts /\ Len(last.pre) = 1)
       => Ascending(get_pool(pool))

---------------------------------------------------------------------------
(* C16 *)

SeedOps == {"signature", "pointers", "pointer"}

\* C16 as the specification states it: with an empty snapshot, get_pool on
\* the session of every seed yields an empty pool.
C16_EmptySnapshotEmptyPool ==
    (maps = <<>> /\ last.op = "get_pool" /\ last.arg.op \in SeedOps) =>
        last.res = <<>>

\* C16, amended: with an empty snapshot, get_pool on the session of a
\* signature seed yields an empty pool, and on the session of pointers or
\* pointer it yields the addresses the seed was given, one each, in order.
C16_EmptySnapshotPoolIsTheSeed ==
    (maps = <<>> /\ last.op = "get_pool" /\ last.arg.op \in SeedOps) =>
        /\ ~broken
        /\ last.res = CASE last.arg.op = "signature" -> <<>>
                        [] last.arg.op = "pointers" -> last.arg.arg
                        [] last.arg.op = "pointer" -> <<last.arg.arg>>

\* get_pool returned the two addresses a pointers seed was given over an
\* empty snapshot, and the empty pool of a signature seed.
C16_Witness ==
    /\ maps = <<>>
    /\ last.op = "get_pool"
    /\ \/ last.arg.op = "pointers" /\ Len(last.res) = 2 /\ last.res = last.arg.arg
       \/ last.arg.op = "pointer" /\ last.res = <<last.arg.arg>>

====
